---- MODULE Spec2Model ----
(***************************************************************************)
(* Model of streamlit_app.py, the RSSI heatmap tracker.                    *)
(*                                                                         *)
(* The session state is the list st.session_state.data_points.  Every     *)
(* interaction (form submit, button, file upload) is one run of the        *)
(* script: the handler of the interaction mutates the list and the rest    *)
(* of the script renders the dashboard from it.  Each action below is one  *)
(* such run.                                                               *)
(*                                                                         *)
(* Not modelled: the 'timestamp' field of a point (datetime.now(), never   *)
(* read back), the unused session keys is_tracking / start_position, the   *)
(* charts, and the persistence of the uploader widget across runs.         *)
(***************************************************************************)
EXTENDS Integers, Sequences, FiniteSets

VARIABLES
    data_points,   \* st.session_state.data_points: sequence of point dicts
    status,        \* the st.success / st.error call of the last run
    screen,        \* readiness assessment rendered by the last run
    report,        \* readiness label of the report built by the last run
    runs           \* number of script runs that handled an interaction

vars == <<data_points, status, screen, report, runs>>

----------------------------------------------------------------------------
(* Bounds of the model.                                                    *)

MaxRuns == 3      \* interactions per session explored under Spec
MaxRows == 2      \* data rows of an uploaded CSV file
MaxSurvey == 20   \* points of a survey explored under SpecVerdict

----------------------------------------------------------------------------
(* Values.  An rssi handed to add_data_point is a number, the float NaN    *)
(* (an empty CSV cell) or a str (a cell of a column pandas could not       *)
(* parse as numbers).                                                      *)

Num(n) == [t |-> "num", v |-> n]
NaN == [t |-> "nan", v |-> 0]
Str == [t |-> "str", v |-> 0]

\* Python's  rssi >= k  and  rssi < k  for a number or NaN: every
\* comparison with NaN is False.
Ge(rssi, k) == rssi.t = "num" /\ rssi.v >= k
Lt(rssi, k) == rssi.t = "num" /\ rssi.v < k

\* rssi >= k raises TypeError when rssi is a str.
Raises(rssi) == rssi.t = "str"

\* Range of the RSSI number_input of the form.
MIN_RSSI == -120
MAX_RSSI == -20

\* The sample data of the "Demo Data" button: (x, y, rssi).
demo_points ==
    << <<0, 0, -55>>, <<5, 3, -62>>, <<10, -2, -68>>, <<15, 4, -75>>,
       <<-5, 8, -58>>, <<8, 10, -72>>, <<12, -5, -78>>, <<-8, -3, -65>>,
       <<20, 8, -82>>, <<-12, 12, -70>>, <<18, -8, -85>>, <<-15, -10, -88>> >>

----------------------------------------------------------------------------
(* get_rssi_quality and add_data_point.                                    *)

\* faulty variant: the thresholds compared with > instead of >=
get_rssi_quality_strict(rssi) ==
    IF Raises(rssi) THEN "TypeError"
    ELSE IF rssi.t = "num" /\ rssi.v > -60 THEN "Excellent"
    ELSE IF rssi.t = "num" /\ rssi.v > -70 THEN "Good"
    ELSE IF rssi.t = "num" /\ rssi.v > -80 THEN "Fair"
    ELSE IF rssi.t = "num" /\ rssi.v > -90 THEN "Poor"
    ELSE "Critical"

get_rssi_quality(rssi) ==
    IF Raises(rssi) THEN "TypeError"
    ELSE IF Ge(rssi, -60) THEN "Excellent"
    ELSE IF Ge(rssi, -70) THEN "Good"
    ELSE IF Ge(rssi, -80) THEN "Fair"
    ELSE IF Ge(rssi, -90) THEN "Poor"
    ELSE "Critical"

\* faulty variant: the point inserted at the front of the list
add_data_point_prepend(dp, x, y, rssi) ==
    IF Raises(rssi)
    THEN [raised |-> TRUE, data_points |-> dp]
    ELSE [raised |-> FALSE,
          data_points |-> <<[x |-> x, y |-> y, rssi |-> rssi,
                             quality |-> get_rssi_quality(rssi)]>> \o dp]

\* faulty variant: the quality carried over from the point before
add_data_point_stale(dp, x, y, rssi) ==
    IF Raises(rssi)
    THEN [raised |-> TRUE, data_points |-> dp]
    ELSE [raised |-> FALSE,
          data_points |-> Append(dp, [x |-> x, y |-> y, rssi |-> rssi,
                                      quality |-> IF dp = <<>> THEN "Good"
                                                  ELSE dp[Len(dp)].quality])]

\* The result of a call: whether it raised, and the list afterwards.  The
\* quality is computed first, so a call that raises appends nothing.
add_data_point(dp, x, y, rssi) ==
    IF get_rssi_quality(rssi) = "TypeError"
    THEN [raised |-> TRUE, data_points |-> dp]
    ELSE [raised |-> FALSE,
          data_points |-> Append(dp, [x |-> x, y |-> y, rssi |-> rssi,
                                      quality |-> get_rssi_quality(rssi)])]

----------------------------------------------------------------------------
(* IEEE-754 binary64 arithmetic, as far as line 136 needs it:              *)
(*     (len(df[df['rssi'] >= -70]) / len(df)) * 100                        *)
(* is an int/int true division (correctly rounded to a double) followed    *)
(* by a double multiplication by 100.0, both round-half-to-even.  A        *)
(* double is kept as its 53 significand bits, most significant first,      *)
(* and its binary exponent: value = 1.b2...b53 * 2^exp.                    *)

SIGNIFICAND_BITS == 53

Zeros(k) == [i \in 1..k |-> 0]

RECURSIVE Bin(_)
Bin(c) == IF c = 0 THEN <<>> ELSE Bin(c \div 2) \o <<c % 2>>

FZero == [zero |-> TRUE, exp |-> 0, man |-> Zeros(SIGNIFICAND_BITS)]

\* bits + 1, for a bit string that is not all ones
IncBits(bits) ==
    LET j == CHOOSE i \in 1..Len(bits) :
                 bits[i] = 0 /\ \A h \in (i+1)..Len(bits) : bits[h] = 1
    IN  [i \in 1..Len(bits) |-> IF i < j THEN bits[i] ELSE IF i = j THEN 1 ELSE 0]

\* Round 1.bits[2..] * 2^e to 53 bits, half to even; sticky says that
\* nonzero digits follow the given bits.  Len(bits) >= 54, bits[1] = 1.
FRound(bits, e, sticky) ==
    LET m == SubSeq(bits, 1, SIGNIFICAND_BITS)
        g == bits[SIGNIFICAND_BITS + 1]
        st == sticky \/ \E i \in (SIGNIFICAND_BITS + 2)..Len(bits) : bits[i] = 1
        up == g = 1 /\ (st \/ m[SIGNIFICAND_BITS] = 1)
    IN  IF ~up THEN [zero |-> FALSE, exp |-> e, man |-> m]
        ELSE IF \A i \in 1..SIGNIFICAND_BITS : m[i] = 1
             THEN [zero |-> FALSE, exp |-> e + 1,
                   man |-> <<1>> \o Zeros(SIGNIFICAND_BITS - 1)]
             ELSE [zero |-> FALSE, exp |-> e, man |-> IncBits(m)]

\* least k with s * 2^k >= n   (0 < s <= n)
RECURSIVE ScaleUp(_, _)
ScaleUp(s, n) == IF s >= n THEN 0 ELSE 1 + ScaleUp(2 * s, n)

RECURSIVE Pow2(_)
Pow2(k) == IF k = 0 THEN 1 ELSE 2 * Pow2(k - 1)

\* 2^j mod n, by repeated squaring
RECURSIVE PowMod2(_, _)
PowMod2(j, n) ==
    IF j = 0 THEN 1 % n
    ELSE LET h == PowMod2(j \div 2, n)
         IN  (h * h * (IF j % 2 = 1 THEN 2 ELSE 1)) % n

\* (r * 2^j) mod n: what long division of r by n has left after j more digits
DivRem(r, n, j) == ((r % n) * PowMod2(j, n)) % n

\* the first c binary digits of r / n (n <= r < 2n), by long division:
\* digit i is 1 iff twice the remainder left after digit i-1 reaches n
DivBits(r, n, c) ==
    [i \in 1..c |-> IF i = 1 THEN 1
                    ELSE IF 2 * DivRem(r, n, i - 2) >= n THEN 1 ELSE 0]

\* s / n as a double, for integers 0 <= s <= n, n > 0
FDiv(s, n) ==
    IF s = 0 THEN FZero
    ELSE LET k == ScaleUp(s, n)
             r == s * Pow2(k)
         IN  FRound(DivBits(r, n, SIGNIFICAND_BITS + 1), 0 - k,
                    DivRem(r, n, SIGNIFICAND_BITS) # 0)

\* the integer a bit string bits[1..i] denotes, and the w-bit string of v
RECURSIVE BitsValue(_, _)
BitsValue(bits, i) == IF i = 0 THEN 0 ELSE 2 * BitsValue(bits, i - 1) + bits[i]

FixedBits(v, w) == [i \in 1..w |-> (v \div Pow2(w - i)) % 2]

\* man * k as a bit string without leading zeros (k < 2^13), the 53 bits
\* taken as limbs of 17, 18 and 18 bits, least significant limb first
LIMB_BITS == 18

MulBits(man, k) ==
    LET hi == BitsValue(SubSeq(man, 1, SIGNIFICAND_BITS - 2 * LIMB_BITS),
                        SIGNIFICAND_BITS - 2 * LIMB_BITS)
        mid == BitsValue(SubSeq(man, SIGNIFICAND_BITS - 2 * LIMB_BITS + 1,
                                SIGNIFICAND_BITS - LIMB_BITS), LIMB_BITS)
        lo == BitsValue(SubSeq(man, SIGNIFICAND_BITS - LIMB_BITS + 1,
                               SIGNIFICAND_BITS), LIMB_BITS)
        base == Pow2(LIMB_BITS)
        p0 == lo * k
        p1 == mid * k + p0 \div base
        p2 == hi * k + p1 \div base
    IN  Bin(p2) \o FixedBits(p1 % base, LIMB_BITS) \o FixedBits(p0 % base, LIMB_BITS)

\* f * k as a double, for a double f >= 0 and an integer 1 <= k < 2^13
FMulInt(f, k) ==
    IF f.zero THEN f
    ELSE LET p == MulBits(f.man, k)
         IN  FRound(p \o <<0>>, f.exp + (Len(p) - SIGNIFICAND_BITS), FALSE)

LexGe(a, b) ==
    a = b \/ \E i \in 1..Len(a) : a[i] > b[i] /\ \A j \in 1..(i-1) : a[j] = b[j]

\* f >= k and f > k for a double f >= 0 and an integer k >= 1
FGeInt(f, k) ==
    LET kb == Bin(k)
    IN  ~f.zero /\ (f.exp > Len(kb) - 1
                    \/ (f.exp = Len(kb) - 1
                        /\ LexGe(f.man, kb \o Zeros(SIGNIFICAND_BITS - Len(kb)))))

----------------------------------------------------------------------------
(* calculate_stats.  The dict it returns is a function from its keys; the  *)
(* empty store gives the empty dict {}.  avg_rssi (np.mean, display only)  *)
(* is left out.                                                            *)

EmptyDict == [key \in {} |-> 0]

\* The boolean masks df['rssi'] >= k and df['rssi'] < k, as the sets of the
\* rows they select; & is their intersection and len(df[mask]) the size.
mask_ge(dp, k) == {i \in 1..Len(dp) : Ge(dp[i].rssi, k)}
mask_lt(dp, k) == {i \in 1..Len(dp) : Lt(dp[i].rssi, k)}

HasNaN(dp) == \E i \in 1..Len(dp) : dp[i].rssi.t = "nan"

\* np.min / np.max: NaN as soon as one value is NaN
np_min(dp) ==
    IF HasNaN(dp) THEN NaN
    ELSE dp[CHOOSE i \in 1..Len(dp) : \A j \in 1..Len(dp) : dp[i].rssi.v <= dp[j].rssi.v].rssi

np_max(dp) ==
    IF HasNaN(dp) THEN NaN
    ELSE dp[CHOOSE i \in 1..Len(dp) : \A j \in 1..Len(dp) : dp[i].rssi.v >= dp[j].rssi.v].rssi

\* No store of the model holds more points than this.
MaxPoints == Len(demo_points) * MaxRuns + MaxRows + MaxSurvey

\* (s / n) * 100 for every s <= n <= MaxPoints, computed once
percent_table ==
    [n \in 1..MaxPoints |-> [s \in 0..n |-> FMulInt(FDiv(s, n), 100)]]

coverage_percent(dp) == percent_table[Len(dp)][Cardinality(mask_ge(dp, -70))]

calculate_stats(dp) ==
    IF dp = <<>> THEN EmptyDict
    ELSE [total_points |-> Len(dp),
          min_rssi |-> np_min(dp),
          max_rssi |-> np_max(dp),
          excellent |-> Cardinality(mask_ge(dp, -60)),
          good |-> Cardinality(mask_ge(dp, -70) \cap mask_lt(dp, -60)),
          fair |-> Cardinality(mask_ge(dp, -80) \cap mask_lt(dp, -70)),
          poor |-> Cardinality(mask_ge(dp, -90) \cap mask_lt(dp, -80)),
          critical |-> Cardinality(mask_lt(dp, -90)),
          agv_suitable |-> Cardinality(mask_ge(dp, -70)),
          coverage_percent |-> coverage_percent(dp)]

----------------------------------------------------------------------------
(* The two readiness ladders: the assessment on screen and the label of    *)
(* the text report.                                                        *)

assessment(stats) ==
    IF FGeInt(stats.coverage_percent, 95) THEN "READY FOR DEPLOYMENT"
    ELSE IF FGeInt(stats.coverage_percent, 80) THEN "NEEDS IMPROVEMENT"
    ELSE "NOT READY"

\* faulty variant: the report's first threshold typed as 90
report_label_90(stats) ==
    IF FGeInt(stats.coverage_percent, 90) THEN "READY"
    ELSE IF FGeInt(stats.coverage_percent, 80) THEN "NEEDS WORK"
    ELSE "NOT READY"

report_label(stats) ==
    IF FGeInt(stats.coverage_percent, 95) THEN "READY"
    ELSE IF FGeInt(stats.coverage_percent, 80) THEN "NEEDS WORK"
    ELSE "NOT READY"

\* The statistics dashboard is rendered only for a non-empty store.
dashboard(dp) == IF dp = <<>> THEN "none" ELSE assessment(calculate_stats(dp))

----------------------------------------------------------------------------
(* The handlers.  Each ends in st.rerun() or falls through to the rest of  *)
(* the script; either way the dashboard is rendered from the new store,    *)
(* and a report exists only in the run of the report button.               *)

rendered == screen' = dashboard(data_points') /\ report' = "none"

\* form "add_measurement"
form_submit(x_pos, y_pos, rssi_val) ==
    /\ data_points' = add_data_point(data_points, x_pos, y_pos, Num(rssi_val)).data_points
    /\ status' = "added"
    /\ rendered

\* for x, y, rssi in points[i..]: add_data_point(x, y, rssi)
RECURSIVE add_each(_, _, _)
add_each(dp, points, i) ==
    IF i > Len(points) THEN dp
    ELSE add_each(add_data_point(dp, points[i][1], points[i][2], Num(points[i][3])).data_points,
                  points, i + 1)

\* faulty variant: the store emptied before the sample data is added
demo_button_cleared ==
    /\ data_points' = add_each(<<>>, demo_points, 1)
    /\ status' = "demo"
    /\ rendered

\* button "Demo Data"
demo_button ==
    /\ data_points' = add_each(data_points, demo_points, 1)
    /\ status' = "demo"
    /\ rendered

\* button "Clear All"
clear_button ==
    /\ data_points' = <<>>
    /\ status' = "cleared"
    /\ rendered

(* An uploaded file: whether pd.read_csv can read it, whether the frame    *)
(* has the columns x, y and rssi, and its data rows.  A cell of the rssi   *)
(* column is an integer literal, empty, or text that is no number.         *)
IntCell(n) == [kind |-> "int", v |-> n]
BlankCell == [kind |-> "blank", v |-> 0]
TextCell == [kind |-> "text", v |-> 0]

\* pd.read_csv types a column as a whole: with one cell that is no number
\* the column has dtype object and keeps every non-empty cell as a str.
\* An empty cell is NaN in either case.
object_column(rows) == \E i \in 1..Len(rows) : rows[i].rssi.kind = "text"

\* row['rssi'] of df.iterrows()
row_rssi(rows, i) ==
    IF rows[i].rssi.kind = "blank" THEN NaN
    ELSE IF object_column(rows) THEN Str
    ELSE Num(rows[i].rssi.v)

\* for _, row in df.iterrows(): add_data_point(...), stopped by the first
\* call that raises
RECURSIVE import_rows(_, _, _)
import_rows(dp, rows, i) ==
    IF i > Len(rows) THEN [raised |-> FALSE, data_points |-> dp]
    ELSE LET r == add_data_point(dp, rows[i].x, rows[i].y, row_rssi(rows, i))
         IN  IF r.raised THEN r ELSE import_rows(r.data_points, rows, i + 1)

\* uploaded_file is not None
file_upload(file) ==
    /\ IF ~file.readable
       THEN data_points' = data_points /\ status' = "error_import"
       ELSE IF ~file.has_columns
       THEN data_points' = data_points /\ status' = "error_columns"
       ELSE LET r == import_rows(<<>>, file.rows, 1)
            IN  /\ data_points' = r.data_points
                /\ status' = IF r.raised THEN "error_import" ELSE "imported"
    /\ rendered

\* button "Download Report", inside the dashboard of a non-empty store
report_button ==
    /\ data_points # <<>>
    /\ report' = report_label(calculate_stats(data_points))
    /\ screen' = dashboard(data_points)
    /\ status' = "none"
    /\ UNCHANGED data_points

----------------------------------------------------------------------------
(* Inputs explored.                                                        *)

\* positions typed into the form
Positions == {<<0, 0>>, <<5, 3>>}

\* RSSI values typed into the form: the ends of the widget's range and
\* every threshold
FormRssi == {MIN_RSSI, -90, -80, -70, -60, MAX_RSSI}

\* cells of the rssi column of uploaded files
Cells == {IntCell(-70), IntCell(-10), BlankCell, TextCell}

RowsOf(cells) == [i \in 1..Len(cells) |-> [x |-> i, y |-> 0, rssi |-> cells[i]]]

Files ==
    {[readable |-> FALSE, has_columns |-> FALSE, rows |-> <<>>],
     [readable |-> TRUE, has_columns |-> FALSE, rows |-> <<>>]}
    \cup {[readable |-> TRUE, has_columns |-> TRUE, rows |-> RowsOf(cells)] :
              cells \in UNION {[1..k -> Cells] : k \in 0..MaxRows}}

----------------------------------------------------------------------------
(* The session: any interactions, MaxRuns of them.                         *)

Init ==
    /\ data_points = <<>>
    /\ status = "none"
    /\ screen = "none"
    /\ report = "none"
    /\ runs = 0

AddMeasurement ==
    /\ runs < MaxRuns
    /\ \E pos \in Positions, rssi_val \in FormRssi : form_submit(pos[1], pos[2], rssi_val)
    /\ runs' = runs + 1

DemoData == runs < MaxRuns /\ demo_button /\ runs' = runs + 1

ClearAll == runs < MaxRuns /\ clear_button /\ runs' = runs + 1

ImportCsv ==
    /\ runs < MaxRuns
    /\ \E file \in Files : file_upload(file)
    /\ runs' = runs + 1

DownloadReport == runs < MaxRuns /\ report_button /\ runs' = runs + 1

Next == AddMeasurement \/ DemoData \/ ClearAll \/ ImportCsv \/ DownloadReport

Spec == Init /\ [][Next]_vars

(* One measurement of every RSSI the form accepts, from the empty store.   *)
ClassifyInput ==
    /\ data_points = <<>>
    /\ \E rssi_val \in MIN_RSSI..MAX_RSSI : form_submit(0, 0, rssi_val)
    /\ UNCHANGED runs

NextClassify == ClassifyInput

SpecClassify == Init /\ [][NextClassify]_vars

(* A survey of up to MaxSurvey points at the suitability threshold: -70    *)
(* (suitable) and -71 (not), the suitable ones entered first.              *)
SurveyAdd ==
    /\ Len(data_points) < MaxSurvey
    /\ \E rssi_val \in {-70, -71} :
          /\ rssi_val = -70 => \A i \in 1..Len(data_points) : data_points[i].rssi.v = -70
          /\ form_submit(0, 0, rssi_val)
    /\ UNCHANGED runs

SurveyReport == report_button /\ UNCHANGED runs

NextVerdict == SurveyAdd \/ SurveyReport

SpecVerdict == Init /\ [][NextVerdict]_vars

----------------------------------------------------------------------------
(* Properties.                                                             *)

Qualities == {"Excellent", "Good", "Fair", "Poor", "Critical"}

InRange(n) == MIN_RSSI <= n /\ n <= MAX_RSSI

\* the last step was a run of the handler that reported s
Ran(s) == runs' = runs + 1 /\ status' = s

\* C1: in every store state, add(x, y, rssi) with an integer rssi outside
\* [-120, -20] fails and leaves the store unchanged: the value is neither
\* appended nor clamped.
C1_AddRejectsOutOfRange ==
    \A rssi \in {MIN_RSSI - 1, MAX_RSSI + 1, -10} :
        LET r == add_data_point(data_points, 0, 0, Num(rssi))
        IN  r.raised /\ r.data_points = data_points

\* a row the import has to reject: its rssi is no integer of [-120, -20]
InvalidCell(cell) == ~(cell.kind = "int" /\ InRange(cell.v))

HasInvalidRow(file) ==
    /\ file.readable
    /\ file.has_columns
    /\ \E i \in 1..Len(file.rows) : InvalidCell(file.rows[i].rssi)

\* C2: bulk import is all-or-nothing: importing rows of which at least one
\* is invalid, at any position, fails and leaves the store as it was; the
\* store is neither cleared nor left with a prefix of the rows.
C2_ImportAllOrNothing ==
    [][\A file \in Files :
          (HasInvalidRow(file) /\ file_upload(file) /\ runs' = runs + 1)
              => (status' = "error_import" /\ data_points' = data_points)]_vars

\* the twelve demo points, classified by hand from the ladder
DemoExpected ==
    << [x |-> 0, y |-> 0, rssi |-> Num(-55), quality |-> "Excellent"],
       [x |-> 5, y |-> 3, rssi |-> Num(-62), quality |-> "Good"],
       [x |-> 10, y |-> -2, rssi |-> Num(-68), quality |-> "Good"],
       [x |-> 15, y |-> 4, rssi |-> Num(-75), quality |-> "Fair"],
       [x |-> -5, y |-> 8, rssi |-> Num(-58), quality |-> "Excellent"],
       [x |-> 8, y |-> 10, rssi |-> Num(-72), quality |-> "Fair"],
       [x |-> 12, y |-> -5, rssi |-> Num(-78), quality |-> "Fair"],
       [x |-> -8, y |-> -3, rssi |-> Num(-65), quality |-> "Good"],
       [x |-> 20, y |-> 8, rssi |-> Num(-82), quality |-> "Poor"],
       [x |-> -12, y |-> 12, rssi |-> Num(-70), quality |-> "Good"],
       [x |-> 18, y |-> -8, rssi |-> Num(-85), quality |-> "Poor"],
       [x |-> -15, y |-> -10, rssi |-> Num(-88), quality |-> "Poor"] >>

\* C3 as stated: loading the demo data from any store state clears the
\* store first, so afterwards the store holds exactly the twelve demo
\* points, in listed order.
C3_DemoReplaces ==
    [][Ran("demo") => data_points' = DemoExpected]_vars

\* C3 as amended: loading the demo data from any store state appends the
\* twelve demo points, in listed order, after the points already held,
\* which stay as they were; the count grows by 12.
C3_DemoAppends ==
    [][Ran("demo") => data_points' = data_points \o DemoExpected]_vars

\* the demo data loaded a second time, on top of the first twelve
C3_Witness ==
    /\ status = "demo"
    /\ Len(data_points) = 24
    /\ SubSeq(data_points, 13, 24) = DemoExpected

\* C4: in every reachable state every stored point's quality is the
\* classification of that point's own rssi.
C4_QualityMatchesRssi ==
    \A i \in 1..Len(data_points) :
        data_points[i].quality = get_rssi_quality(data_points[i].rssi)

\* points of different quality side by side, one of them read from an
\* empty CSV cell
C4_Witness ==
    /\ \E i \in 1..Len(data_points) : data_points[i].quality = "Good"
    /\ \E i \in 1..Len(data_points) : data_points[i].rssi.t = "nan"

\* C5: the statistics of the empty store are an object with totalPoints,
\* the five quality counts and agvSuitable all zero and coveragePercent 0.
C5_EmptyStatsAllZero ==
    data_points = <<>> =>
        LET stats == calculate_stats(data_points)
        IN  /\ {"total_points", "excellent", "good", "fair", "poor", "critical",
                "agv_suitable", "coverage_percent"} \subseteq DOMAIN stats
            /\ stats.total_points = 0
            /\ stats.excellent = 0
            /\ stats.good = 0
            /\ stats.fair = 0
            /\ stats.poor = 0
            /\ stats.critical = 0
            /\ stats.agv_suitable = 0
            /\ stats.coverage_percent.zero

\* C6: for every reachable non-empty store the five quality counts add up
\* to totalPoints, which is the number of stored points.
C6_BucketsSumToTotal ==
    data_points # <<>> =>
        LET stats == calculate_stats(data_points)
        IN  /\ stats.total_points = Len(data_points)
            /\ stats.excellent + stats.good + stats.fair + stats.poor
                   + stats.critical = stats.total_points

\* C6 without the values the import lets in: the counts add up as long
\* as no stored rssi is NaN.
BucketsSumWithoutNaN ==
    (data_points # <<>> /\ ~HasNaN(data_points)) =>
        LET stats == calculate_stats(data_points)
        IN  stats.excellent + stats.good + stats.fair + stats.poor
                + stats.critical = stats.total_points

\* C7: for every point set, the empty one included, the statistics give
\* agvSuitable = excellent + good.
C7_AgvSuitableIsExcellentPlusGood ==
    LET stats == calculate_stats(data_points)
    IN  /\ {"agv_suitable", "excellent", "good"} \subseteq DOMAIN stats
        /\ stats.agv_suitable = stats.excellent + stats.good

\* C7 without the empty store: whenever there are statistics,
\* agvSuitable = excellent + good.
AgvSuitableNonEmpty ==
    data_points # <<>> =>
        LET stats == calculate_stats(data_points)
        IN  stats.agv_suitable = stats.excellent + stats.good

\* C8: every integer rssi of [-120, -20] gets exactly one quality, the
\* one of the ladder: Excellent iff rssi >= -60, Good iff -70 <= rssi < -60,
\* Fair iff -80 <= rssi < -70, Poor iff -90 <= rssi < -80, Critical iff
\* rssi < -90.
C8_ClassifyLadder ==
    /\ status = "added" => Len(data_points) = 1
    /\ \A i \in 1..Len(data_points) :
          LET r == data_points[i].rssi.v
              q == data_points[i].quality
          IN  /\ data_points[i].rssi.t = "num"
              /\ q \in Qualities
              /\ q = "Excellent" <=> r >= -60
              /\ q = "Good" <=> (-70 <= r /\ r < -60)
              /\ q = "Fair" <=> (-80 <= r /\ r < -70)
              /\ q = "Poor" <=> (-90 <= r /\ r < -80)
              /\ q = "Critical" <=> r < -90

\* the threshold value -70 classified
C8_Witness ==
    /\ Len(data_points) = 1
    /\ data_points[1].rssi = Num(-70)
    /\ data_points[1].quality = "Good"

\* the verdict for s suitable points out of n, in exact arithmetic
Verdict(s, n) ==
    IF 100 * s >= 95 * n THEN "Ready"
    ELSE IF 100 * s >= 80 * n THEN "NeedsImprovement"
    ELSE "NotReady"

ScreenText(verdict) ==
    CASE verdict = "Ready" -> "READY FOR DEPLOYMENT"
      [] verdict = "NeedsImprovement" -> "NEEDS IMPROVEMENT"
      [] verdict = "NotReady" -> "NOT READY"

ReportText(verdict) ==
    CASE verdict = "Ready" -> "READY"
      [] verdict = "NeedsImprovement" -> "NEEDS WORK"
      [] verdict = "NotReady" -> "NOT READY"

Suitable(dp) == Cardinality({i \in 1..Len(dp) : dp[i].rssi.t = "num" /\ dp[i].rssi.v >= -70})

\* C9: for a non-empty store of n points, s of them with rssi >= -70, the
\* assessment on screen is Ready iff 100 s >= 95 n, NeedsImprovement iff
\* 80 n <= 100 s < 95 n and NotReady iff 100 s < 80 n, and the label of a
\* report built from the same store gives the same verdict.
C9_VerdictExact ==
    data_points # <<>> =>
        LET verdict == Verdict(Suitable(data_points), Len(data_points))
        IN  /\ screen = ScreenText(verdict)
            /\ report # "none" => report = ReportText(verdict)

\* a report for 19 suitable points out of 20: exactly 95 percent
C9_Witness ==
    /\ Len(data_points) = 20
    /\ Suitable(data_points) = 19
    /\ screen = "READY FOR DEPLOYMENT"
    /\ report = "READY"

\* C10: a successful add appends exactly one point, with the x, y and rssi
\* entered, as the last element and leaves every point stored before it
\* unchanged in content and position.
C10_AddAppendsLast ==
    [][Ran("added") =>
          /\ Len(data_points') = Len(data_points) + 1
          /\ SubSeq(data_points', 1, Len(data_points)) = data_points
          /\ LET p == data_points'[Len(data_points')]
             IN  /\ <<p.x, p.y>> \in Positions
                 /\ p.rssi.t = "num"
                 /\ p.rssi.v \in FormRssi]_vars

\* a point added after the demo data, and another one after it
C10_Witness ==
    /\ status = "added"
    /\ Len(data_points) = 14
    /\ SubSeq(data_points, 1, 12) = DemoExpected
    /\ data_points[13].rssi # data_points[14].rssi

====
